---- MODULE Spec2Model ----
(***************************************************************************)
(* Model of colour/models/rgb/prismatic.py: the Prismatic colourspace      *)
(* transformations RGB_to_Prismatic and Prismatic_to_RGB.                  *)
(*                                                                         *)
(* Numbers.  A component is a pair <<n, d>>.  With d > 0 it is the         *)
(* rational n/d in lowest terms; with d = 0 it is one of the three IEEE    *)
(* specials the divisions of the source can produce: <<1,0>> is +inf,      *)
(* <<-1,0>> is -inf and <<0,0>> is NaN.  Finite arithmetic is exact (no    *)
(* rounding); signed zeros are not distinguished (0.0 == -0.0 in IEEE).    *)
(*                                                                         *)
(* Arrays.  A 2-D array of shape (N, n) is a sequence of N rows, each a    *)
(* sequence of n components; a single vector is the batch N = 1.  The      *)
(* result of a reduction over the last axis, shape (N,), is a sequence of  *)
(* N components.                                                           *)
(*                                                                         *)
(* Objects.  heap is the sequence of the ndarray objects allocated so far; *)
(* a reference [base, cols] is a view of the columns cols of the object    *)
(* heap[base] (basic slicing on the last axis makes views, arithmetic      *)
(* makes new objects, masked assignment writes in place).                  *)
(***************************************************************************)
EXTENDS Integers, Sequences, FiniteSets

VARIABLES heap, cur, hist, err

vars == <<heap, cur, hist, err>>

(***************************************************************************)
(* Bounds of the model.                                                    *)
(***************************************************************************)
\* RGB components and L are drawn from { k/4 : k \in -1..MaxNum }.
MaxNum == 4
\* Chromaticity components are drawn from { k/12 : k \in -1..MaxChroma }.
MaxChroma == 6
\* Batches hold 1..MaxBatch vectors.
MaxBatch == 2
\* The trailing axis of an input array has 0..MaxAxis components.
MaxAxis == 5
\* The caller performs at most MaxChain operations on an array.
MaxChain == 3

(***************************************************************************)
(* IEEE arithmetic on components.                                          *)
(***************************************************************************)
Abs(i) == IF i < 0 THEN -i ELSE i

Sgn(i) == IF i < 0 THEN -1 ELSE IF i > 0 THEN 1 ELSE 0

RECURSIVE GCD(_, _)
GCD(a, b) == IF b = 0 THEN a ELSE GCD(b, a % b)

\* The rational n/d, d # 0, in lowest terms with a positive denominator.
Rat(n, d) ==
    LET g == GCD(Abs(n), Abs(d))
    IN  <<(Sgn(d) * n) \div g, Abs(d) \div g>>

Zero == <<0, 1>>
NaN == <<0, 0>>
Inf(sign) == <<sign, 0>>

IsFinite(x) == x[2] # 0
IsNaN(x) == x = NaN

\* x + y
fAdd(x, y) ==
    IF IsNaN(x) \/ IsNaN(y) THEN NaN
    ELSE IF ~IsFinite(x) /\ ~IsFinite(y) THEN (IF x = y THEN x ELSE NaN)
    ELSE IF ~IsFinite(x) THEN x
    ELSE IF ~IsFinite(y) THEN y
    ELSE Rat(x[1] * y[2] + y[1] * x[2], x[2] * y[2])

\* x - y
fSub(x, y) == fAdd(x, <<-y[1], y[2]>>)

\* x * y
fMul(x, y) ==
    IF IsNaN(x) \/ IsNaN(y) THEN NaN
    ELSE IF ~IsFinite(x) \/ ~IsFinite(y)
         THEN (IF x[1] = 0 \/ y[1] = 0 THEN NaN ELSE Inf(Sgn(x[1]) * Sgn(y[1])))
    ELSE Rat(x[1] * y[1], x[2] * y[2])

\* x / y (true division: from __future__ import division)
fDiv(x, y) ==
    IF IsNaN(x) \/ IsNaN(y) THEN NaN
    ELSE IF ~IsFinite(y) THEN (IF IsFinite(x) THEN Zero ELSE NaN)
    ELSE IF y[1] = 0
         THEN (IF x[1] = 0 THEN NaN ELSE Inf(Sgn(x[1])))
    ELSE IF ~IsFinite(x) THEN Inf(Sgn(x[1]) * Sgn(y[1]))
    ELSE Rat(x[1] * y[2], x[2] * y[1])

\* x == y: NaN equals nothing
fEq(x, y) == ~IsNaN(x) /\ ~IsNaN(y) /\ x = y

\* x < y
fLess(x, y) ==
    IF IsNaN(x) \/ IsNaN(y) THEN FALSE
    ELSE IF x = y THEN FALSE
    ELSE IF ~IsFinite(x) THEN x[1] < 0
    ELSE IF ~IsFinite(y) THEN y[1] > 0
    ELSE x[1] * y[2] < y[1] * x[2]

\* The maximum of two components as np.max takes it: NaN propagates.
fMax(x, y) ==
    IF IsNaN(x) \/ IsNaN(y) THEN NaN
    ELSE IF fLess(x, y) THEN y ELSE x

(***************************************************************************)
(* Array values.                                                           *)
(***************************************************************************)
\* a.shape[-1] of a 2-D array with at least one row.
Width(x) == IF Len(x) = 0 THEN 0 ELSE Len(x[1])

RECURSIVE RowMax(_)
\* The maximum of a non-empty row.
RowMax(row) ==
    IF Len(row) = 1 THEN row[1]
    ELSE fMax(row[1], RowMax(Tail(row)))

RECURSIVE RowSum(_)
\* The sum of a row; the empty sum is 0.
RowSum(row) ==
    IF Len(row) = 0 THEN Zero
    ELSE fAdd(row[1], RowSum(Tail(row)))

\* np.max(x, axis=-1): shape (N, n) to shape (N,); n > 0.
npMax(x) == [i \in 1..Len(x) |-> RowMax(x[i])]

\* np.sum(x, axis=-1): shape (N, n) to shape (N,).
npSum(x) == [i \in 1..Len(x) |-> RowSum(x[i])]

\* v[..., np.newaxis]: shape (N,) to shape (N, 1).
newaxis(v) == [i \in 1..Len(v) |-> <<v[i]>>]

\* c * x with c of shape (N, 1) broadcast over x of shape (N, n).
npMul(c, x) ==
    [i \in 1..Len(x) |-> [j \in 1..Len(x[i]) |-> fMul(c[i][1], x[i][j])]]

\* c / m, both of shape (N, 1).
npDiv(c, m) == [i \in 1..Len(c) |-> <<fDiv(c[i][1], m[i][1])>>]

\* 1 / s with s of shape (N, 1).
npReciprocal(s) == [i \in 1..Len(s) |-> <<fDiv(<<1, 1>>, s[i][1])>>]

\* The boolean mask d == 0 of an array d of shape (N, 1).
EqZero(d) == [i \in 1..Len(d) |-> <<fEq(d[i][1], Zero)>>]

\* colour.utilities.tsplit: the trailing axis split into a sequence of
\* a.shape[-1] arrays of shape (N,).
tsplit(x) == [j \in 1..Width(x) |-> [i \in 1..Len(x) |-> x[i][j]]]

\* colour.utilities.tstack: arrays of shape (N,) stacked along a new trailing
\* axis.
tstack(parts) ==
    [i \in 1..Len(parts[1]) |-> [j \in 1..Len(parts) |-> parts[j][i]]]

(***************************************************************************)
(* ndarray objects and views.                                              *)
(***************************************************************************)
NoRef == [base |-> 0, cols |-> <<>>]

\* The reference to the whole of object id, whose trailing axis has n
\* components.
Whole(id, n) == [base |-> id, cols |-> [j \in 1..n |-> j]]

\* The array a reference denotes.
Read(h, ref) ==
    [i \in 1..Len(h[ref.base]) |->
        [j \in 1..Len(ref.cols) |-> h[ref.base][i][ref.cols[j]]]]

\* A new object holding val.
Alloc(h, val) ==
    [heap |-> Append(h, val), ref |-> Whole(Len(h) + 1, Width(val))]

\* The position of column c among the columns of a view, 0 when it is not
\* one of them.
ColIndex(cols, c) ==
    IF \E j \in 1..Len(cols) : cols[j] = c
    THEN CHOOSE j \in 1..Len(cols) : cols[j] = c
    ELSE 0

\* ref[...] = val: the in-place write of val through a view.
Write(h, ref, val) ==
    [h EXCEPT ![ref.base] =
        [i \in 1..Len(@) |->
            [c \in 1..Len(@[i]) |->
                IF ColIndex(ref.cols, c) = 0 THEN @[i][c]
                ELSE val[i][ColIndex(ref.cols, c)]]]]

\* ref[mask] = v for ref and mask of shape (N, 1).
MaskedAssign(h, ref, mask, v) ==
    Write(h, ref,
          [i \in 1..Len(mask) |->
              <<IF mask[i][1] THEN v ELSE Read(h, ref)[i][1]>>])

\* a[..., 1:]: a view of all but the first column.
SliceFrom1(ref) ==
    [base |-> ref.base, cols |-> SubSeq(ref.cols, 2, Len(ref.cols))]

\* a[..., 0][..., np.newaxis]: a view of the first column.
Slice0(ref) == [base |-> ref.base, cols |-> <<ref.cols[1]>>]

\* np.asarray of an ndarray is the ndarray itself.
asarray(ref) == ref

\* A raised exception: no array is returned.
Raise(h, e) == [heap |-> h, ret |-> NoRef, err |-> e]

Return(h, ref) == [heap |-> h, ret |-> ref, err |-> "none"]

(***************************************************************************)
(* RGB_to_Prismatic, statement by statement.                               *)
(***************************************************************************)
\* Fault model: axis=-1 dropped, the maximum taken over the whole batch.
fwd_L_global(x) ==
    [i \in 1..Len(x) |-> RowMax([k \in 1..Len(x) |-> RowMax(x[k])])]

\* L = np.max(RGB, axis=-1)
fwd_L(x) == npMax(x)

\* Fault model: the denominator is the maximum instead of the sum.
fwd_s_max(x) == newaxis(npMax(x))

\* s = np.sum(RGB, axis=-1)[..., np.newaxis]
fwd_s(x) == newaxis(npSum(x))

\* one_s = 1 / s: a new array.
fwd_one_s(h, s) == Alloc(h, npReciprocal(s))

\* Fault model: the zero guard left out.
fwd_guard_none(h, one_s, s) == h

\* one_s[s == 0] = 0
fwd_guard(h, one_s, s) == MaskedAssign(h, one_s, EqZero(s), Zero)

\* Fault model: the first three parts taken, the others ignored.
fwd_unpack_atleast(parts) == Len(parts) >= 3

\* r, g, b = <parts>: the unpacking succeeds on exactly three parts.
fwd_unpack(parts) == Len(parts) = 3

\* Fault model: L stacked last instead of first.
fwd_stack_Llast(h, L, parts) ==
    Alloc(h, tstack(<<parts[1], parts[2], parts[3], L>>))

\* tstack((L, r, g, b)): a new array.
fwd_stack(h, L, parts) ==
    Alloc(h, tstack(<<L, parts[1], parts[2], parts[3]>>))

\* RGB_to_Prismatic(RGB), called on the array a of the heap h: the heap
\* after the call, the returned reference and the exception raised, if any.
\* np.max raises ValueError on an empty trailing axis; the unpacking of
\* other than three parts raises ValueError.
RGB_to_Prismatic(h, a) ==
    LET RGB == asarray(a)
        x == Read(h, RGB)
    IN  IF Width(x) = 0 THEN Raise(h, "ValueError")
        ELSE
        LET L == fwd_L(x)
            s == fwd_s(x)
            o == fwd_one_s(h, s)
            h2 == fwd_guard(o.heap, o.ref, s)
            parts == tsplit(npMul(Read(h2, o.ref), Read(h2, RGB)))
        IN  IF ~fwd_unpack(parts) THEN Raise(h2, "ValueError")
            ELSE LET out == fwd_stack(h2, L, parts)
                 IN  Return(out.heap, out.ref)

(***************************************************************************)
(* Prismatic_to_RGB, statement by statement.                               *)
(***************************************************************************)
\* rgb = Lrgb[..., 1:]: a view of the argument.
inv_rgb(Lrgb) == SliceFrom1(Lrgb)

\* Fault models: the sum, or the minimum, in the place of the maximum.
inv_m_sum(x) == newaxis(npSum(x))

inv_m_min(x) ==
    [i \in 1..Len(x) |->
        <<CHOOSE c \in {x[i][j] : j \in 1..Len(x[i])} :
              \A j \in 1..Len(x[i]) : ~fLess(x[i][j], c)>>]

\* m = np.max(rgb, axis=-1)[..., np.newaxis]
inv_m(x) == newaxis(npMax(x))

\* Fault model: the division done in place, in the view of the argument
\* (RGB = Lrgb[..., 0][..., np.newaxis]; RGB /= m).
inv_quotient_inplace(h, L, m) ==
    [heap |-> Write(h, L, npDiv(Read(h, L), m)), ref |-> L]

\* RGB = Lrgb[..., 0][..., np.newaxis] / m: a new array.
inv_quotient(h, L, m) == Alloc(h, npDiv(Read(h, L), m))

\* Fault model: the zero guard left out.
inv_guard_none(h, RGB, m) == h

\* RGB[m == 0] = 0
inv_guard(h, RGB, m) == MaskedAssign(h, RGB, EqZero(m), Zero)

\* RGB = RGB * rgb: a new array.
inv_scale(h, RGB, rgb) == Alloc(h, npMul(Read(h, RGB), Read(h, rgb)))

\* Prismatic_to_RGB(Lrgb), called on the array a of the heap h.  No statement
\* looks at the length of the trailing axis; np.max raises ValueError when
\* rgb has an empty trailing axis.
Prismatic_to_RGB(h, a) ==
    LET Lrgb == asarray(a)
        rgb == inv_rgb(Lrgb)
    IN  IF Len(rgb.cols) = 0 THEN Raise(h, "ValueError")
        ELSE
        LET m == inv_m(Read(h, rgb))
            q == inv_quotient(h, Slice0(Lrgb), m)
            h2 == inv_guard(q.heap, q.ref, m)
            out == inv_scale(h2, q.ref, rgb)
        IN  Return(out.heap, out.ref)

(***************************************************************************)
(* The caller's in-place saturation adjustment (the documented usage):     *)
(* Lrgb[..., 1:] = 1 / 3 + saturation * (Lrgb[..., 1:] - 1 / 3)            *)
(***************************************************************************)
Third == Rat(1, 3)

Saturations == {Rat(1, 2)}

AdjustSaturation(h, Lrgb, saturation) ==
    LET view == SliceFrom1(Lrgb)
        old == Read(h, view)
    IN  Write(h, view,
              [i \in 1..Len(old) |->
                  [j \in 1..Len(old[i]) |->
                      fAdd(Third, fMul(saturation, fSub(old[i][j], Third)))]])

(***************************************************************************)
(* The arrays a caller passes in.                                          *)
(***************************************************************************)
Quarters == {Rat(k, 4) : k \in -1..MaxNum}

Twelfths == {Rat(k, 12) : k \in -1..MaxChroma}

Halves == {Zero, Rat(1, 2)}

\* Single RGB vectors on the fine grid.
RGBVectors == {<<<<r, g, b>>>> : r \in Quarters, g \in Quarters, b \in Quarters}

\* Single Prismatic vectors on the fine grid.
PrismaticVectors ==
    {<<<<L, r, g, b>>>> : L \in Quarters, r \in Twelfths, g \in Twelfths,
                          b \in Twelfths}

\* The vectors of a batch: one value in the first component, one value in
\* all the others, so that zero, degenerate and regular vectors all occur.
BatchRows(n) ==
    {[j \in 1..n |-> IF j = 1 THEN a ELSE b] : a \in Halves, b \in Halves}

\* Batches of two or more three- or four-component vectors.
Batches ==
    UNION {[1..N -> BatchRows(n)] : N \in 2..MaxBatch, n \in {3, 4}}

\* Single vectors of every other length of the trailing axis.
OddShapes == UNION {[1..1 -> [1..n -> Halves]] : n \in 0..MaxAxis}

Inputs == RGBVectors \cup PrismaticVectors \cup Batches \cup OddShapes

(***************************************************************************)
(* The state machine: a caller that owns one array and applies the         *)
(* operations to it, each to the result of the one before.                 *)
(***************************************************************************)
Init ==
    /\ \E a \in Inputs :
           /\ heap = <<a>>
           /\ cur = Whole(1, Width(a))
    /\ hist = <<>>
    /\ err = "none"

\* What the caller observes of one call: the argument and its contents
\* before the call, the result, and whether the result is an object the call
\* created.
CallRecord(name, r) ==
    [op |-> name,
     arg |-> cur,
     in |-> Read(heap, cur),
     out |-> IF r.err = "none" THEN Read(r.heap, r.ret) ELSE <<>>,
     fresh |-> r.ret.base > Len(heap),
     err |-> r.err]

Call(name, r) ==
    /\ err = "none"
    /\ Len(hist) < MaxChain
    /\ heap' = r.heap
    /\ cur' = IF r.err = "none" THEN r.ret ELSE cur
    /\ err' = r.err
    /\ hist' = Append(hist, CallRecord(name, r))

CallRGB_to_Prismatic == Call("RGB_to_Prismatic", RGB_to_Prismatic(heap, cur))

CallPrismatic_to_RGB == Call("Prismatic_to_RGB", Prismatic_to_RGB(heap, cur))

\* The caller adjusts, in place, the saturation of the array RGB_to_Prismatic
\* returned.
Saturate ==
    /\ err = "none"
    /\ Len(hist) < MaxChain
    /\ Len(hist) > 0
    /\ hist[Len(hist)].op = "RGB_to_Prismatic"
    /\ \E k \in Saturations :
           /\ heap' = AdjustSaturation(heap, cur, k)
           /\ hist' = Append(hist,
                  [op |-> "saturate",
                   arg |-> cur,
                   in |-> Read(heap, cur),
                   out |-> Read(heap', cur),
                   fresh |-> FALSE,
                   err |-> "none"])
    /\ UNCHANGED <<cur, err>>

Next == CallRGB_to_Prismatic \/ CallPrismatic_to_RGB \/ Saturate

Spec == Init /\ [][Next]_vars

(***************************************************************************)
(* Vocabulary of the properties.                                           *)
(***************************************************************************)
Steps == 1..Len(hist)

IsCall(k) == hist[k].op \in {"RGB_to_Prismatic", "Prismatic_to_RGB"}

Forward(k) == hist[k].op = "RGB_to_Prismatic"

Inverse(k) == hist[k].op = "Prismatic_to_RGB"

\* Step k + 1 is a call on the unmodified result of the call of step k.
Chained(k) ==
    /\ k + 1 \in Steps
    /\ hist[k].err = "none"
    /\ hist[k + 1].err = "none"
    /\ hist[k + 1].in = hist[k].out

Rows(x) == 1..Len(x)

NonNegative(c) == IsFinite(c) /\ c[1] >= 0

Positive(c) == IsFinite(c) /\ c[1] > 0

AllFinite(row) == \A j \in 1..Len(row) : IsFinite(row[j])

Max3(a, b, c) ==
    IF fLess(a, b) THEN (IF fLess(b, c) THEN c ELSE b)
    ELSE (IF fLess(a, c) THEN c ELSE a)

Sum3(a, b, c) == fAdd(fAdd(a, b), c)

One == <<1, 1>>

ZeroRGB == <<Zero, Zero, Zero>>

ExampleRGB == <<Rat(1, 4), Rat(1, 2), Rat(3, 4)>>

(***************************************************************************)
(* C1.  Round trip.                                                        *)
(***************************************************************************)
RoundTripCase(v) ==
    /\ Len(v) = 3
    /\ \A j \in 1..3 : NonNegative(v[j])
    /\ Positive(Max3(v[1], v[2], v[3]))
    /\ Positive(Sum3(v[1], v[2], v[3]))

\* C1: for every RGB vector v with non-negative components, max(v) > 0 and
\* R + G + B > 0, Prismatic_to_RGB applied to the result of RGB_to_Prismatic
\* on v returns v, component by component, in exact arithmetic.
C1_RoundTrip ==
    \A k \in Steps :
        Forward(k) /\ Chained(k) /\ Inverse(k + 1) =>
            \A i \in Rows(hist[k].in) :
                RoundTripCase(hist[k].in[i]) =>
                    hist[k + 1].out[i] = hist[k].in[i]

C1_Witness ==
    /\ Len(hist) = 2
    /\ Forward(1) /\ Chained(1) /\ Inverse(2)
    /\ hist[1].in = <<ExampleRGB>>
    /\ hist[2].out = <<ExampleRGB>>

(***************************************************************************)
(* C2.  The forward result.                                                *)
(***************************************************************************)
\* C2: for every RGB vector with s = R + G + B > 0, RGB_to_Prismatic returns
\* (L, rho, gamma, beta) in that order, with L = max(R, G, B) and
\* (rho, gamma, beta) = (R/s, G/s, B/s), so rho + gamma + beta = 1; and
\* (1/4, 1/2, 3/4) maps to (3/4, 1/6, 1/3, 1/2).
C2_ForwardResult ==
    \A k \in Steps :
        Forward(k) /\ hist[k].err = "none" =>
            \A i \in Rows(hist[k].in) :
                LET v == hist[k].in[i]
                    p == hist[k].out[i]
                    s == Sum3(v[1], v[2], v[3])
                IN  /\ Positive(s) =>
                        /\ p = <<Max3(v[1], v[2], v[3]), fDiv(v[1], s),
                                 fDiv(v[2], s), fDiv(v[3], s)>>
                        /\ Sum3(p[2], p[3], p[4]) = One
                    /\ v = ExampleRGB =>
                        p = <<Rat(3, 4), Rat(1, 6), Rat(1, 3), Rat(1, 2)>>

C2_Witness ==
    /\ Len(hist) = 1
    /\ Forward(1)
    /\ hist[1].in = <<ExampleRGB>>
    /\ hist[1].out = <<<<Rat(3, 4), Rat(1, 6), Rat(1, 3), Rat(1, 2)>>>>

(***************************************************************************)
(* C3.  Zero input.                                                        *)
(***************************************************************************)
\* C3: RGB_to_Prismatic maps the all-zero RGB vector to exactly (0, 0, 0, 0):
\* the reciprocal 1/s is replaced by 0 where s = 0, so no component of the
\* result is NaN or infinite.
C3_ZeroInput ==
    \A k \in Steps :
        Forward(k) =>
            \A i \in Rows(hist[k].in) :
                hist[k].in[i] = ZeroRGB =>
                    /\ hist[k].err = "none"
                    /\ AllFinite(hist[k].out[i])
                    /\ hist[k].out[i] = <<Zero, Zero, Zero, Zero>>

C3_Witness ==
    /\ Len(hist) = 1
    /\ Forward(1)
    /\ hist[1].in = <<ZeroRGB>>
    /\ hist[1].out = <<<<Zero, Zero, Zero, Zero>>>>

(***************************************************************************)
(* C4.  Degenerate chromaticity.                                           *)
(***************************************************************************)
\* C4: whenever max(rho, gamma, beta) = 0, in particular on (L, 0, 0, 0),
\* Prismatic_to_RGB returns exactly (0, 0, 0) for every finite L (zero,
\* negative or large), and no component of the result is NaN or infinite.
C4_DegenerateChromaticity ==
    \A k \in Steps :
        Inverse(k) =>
            \A i \in Rows(hist[k].in) :
                LET p == hist[k].in[i]
                IN  (/\ Len(p) = 4
                     /\ AllFinite(p)
                     /\ Max3(p[2], p[3], p[4]) = Zero) =>
                        /\ hist[k].err = "none"
                        /\ AllFinite(hist[k].out[i])
                        /\ hist[k].out[i] = ZeroRGB

C4_Witness ==
    /\ Len(hist) = 1
    /\ Inverse(1)
    /\ hist[1].in = <<<<Rat(3, 4), Zero, Zero, Zero>>>>
    /\ hist[1].out = <<ZeroRGB>>

(***************************************************************************)
(* C5.  Luminance preservation.                                            *)
(***************************************************************************)
\* C5: for every Prismatic vector (L, rho, gamma, beta) that is valid
\* (L >= 0) and non-degenerate (max(rho, gamma, beta) > 0), the largest
\* component of the result of Prismatic_to_RGB equals L.
C5_LuminancePreserved ==
    \A k \in Steps :
        Inverse(k) /\ hist[k].err = "none" =>
            \A i \in Rows(hist[k].in) :
                LET p == hist[k].in[i]
                    v == hist[k].out[i]
                IN  (/\ Len(p) = 4
                     /\ AllFinite(p)
                     /\ NonNegative(p[1])
                     /\ Positive(Max3(p[2], p[3], p[4]))) =>
                        Max3(v[1], v[2], v[3]) = p[1]

C5_Witness ==
    /\ Len(hist) = 1
    /\ Inverse(1)
    /\ hist[1].in = <<<<Rat(3, 4), Rat(1, 6), Rat(1, 3), Rat(1, 2)>>>>
    /\ Max3(hist[1].out[1][1], hist[1].out[1][2], hist[1].out[1][3]) = Rat(3, 4)

(***************************************************************************)
(* C6.  Shape validation.                                                  *)
(***************************************************************************)
\* The trailing axis of the argument of step k has the length the function
\* called is documented for.
ShapeExpected(k) ==
    \/ Forward(k) /\ Width(hist[k].in) = 3
    \/ Inverse(k) /\ Width(hist[k].in) = 4

\* C6 as stated: RGB_to_Prismatic on a trailing axis of length other than 3
\* and Prismatic_to_RGB on a trailing axis of length other than 4 fail with
\* an error and never return an array.
C6_ShapeValidated ==
    \A k \in Steps :
        IsCall(k) /\ ~ShapeExpected(k) =>
            /\ hist[k].err # "none"
            /\ hist[k].out = <<>>

\* C6 as amended: RGB_to_Prismatic on a trailing axis of length other than 3
\* raises (a ValueError, there is no InvalidShape error) and returns no
\* array; Prismatic_to_RGB validates nothing: on a trailing axis of length
\* n >= 2 it returns an array whose trailing axis has length n - 1, whatever
\* n is, and it raises only for n <= 1.
C6_ShapeBehaviour ==
    \A k \in Steps :
        LET n == Width(hist[k].in)
        IN  /\ Forward(k) /\ n # 3 =>
                /\ hist[k].err = "ValueError"
                /\ hist[k].out = <<>>
            /\ Forward(k) /\ n = 3 => hist[k].err = "none"
            /\ Inverse(k) /\ n <= 1 =>
                /\ hist[k].err = "ValueError"
                /\ hist[k].out = <<>>
            /\ Inverse(k) /\ n >= 2 =>
                /\ hist[k].err = "none"
                /\ Len(hist[k].out) = Len(hist[k].in)
                /\ Width(hist[k].out) = n - 1

C6_Witness ==
    /\ Len(hist) = 1
    /\ Inverse(1)
    /\ Width(hist[1].in) = 5
    /\ hist[1].err = "none"
    /\ Width(hist[1].out) = 4

(***************************************************************************)
(* C7.  Saturation composition.                                            *)
(***************************************************************************)
SaturationCase ==
    /\ Len(hist) = 3
    /\ Forward(1) /\ hist[1].in = <<ExampleRGB>>
    /\ hist[2].op = "saturate"
    /\ Inverse(3)

\* C7: RGB_to_Prismatic on (1/4, 1/2, 3/4), then each chromaticity c of the
\* result replaced by 1/3 + (1/2) * (c - 1/3) with L left as it is, then
\* Prismatic_to_RGB, yields (9/20, 3/5, 3/4).
C7_SaturationExample ==
    SaturationCase =>
        /\ hist[2].in = hist[1].out
        /\ hist[2].out[1][1] = hist[1].out[1][1]
        /\ hist[2].out = <<<<Rat(3, 4), Rat(1, 4), Rat(1, 3), Rat(5, 12)>>>>
        /\ hist[3].in = hist[2].out
        /\ hist[3].err = "none"
        /\ hist[3].out = <<<<Rat(9, 20), Rat(3, 5), Rat(3, 4)>>>>

C7_Witness ==
    /\ SaturationCase
    /\ hist[3].out = <<<<Rat(9, 20), Rat(3, 5), Rat(3, 4)>>>>

(***************************************************************************)
(* C8.  Batch invariance.                                                  *)
(***************************************************************************)
\* The function of step k applied to the array x alone, as an array value
\* (<<>> when it raises).
Apply(k, x) ==
    LET r == IF Forward(k)
             THEN RGB_to_Prismatic(<<x>>, Whole(1, Width(x)))
             ELSE Prismatic_to_RGB(<<x>>, Whole(1, Width(x)))
    IN  IF r.err = "none" THEN Read(r.heap, r.ret) ELSE <<>>

\* The vectors put in the place of another vector of the batch.
Replacements(n) == {[j \in 1..n |-> c] : c \in {Zero, One}}

\* C8 (stated of the latest call; every call is the latest one in the state
\* it leads to): on a batch of N vectors, result i of RGB_to_Prismatic (of
\* Prismatic_to_RGB) is the result of the function on vector i alone, the
\* result has N vectors, and replacing another vector j # i of the batch
\* leaves result i as it is: the zero guard acts only on the vectors whose
\* own denominator is zero.
C8_BatchInvariance ==
    \A k \in Steps :
        k = Len(hist) /\ IsCall(k) /\ hist[k].err = "none" =>
            LET x == hist[k].in
                y == hist[k].out
            IN  /\ Len(y) = Len(x)
                /\ \A i \in Rows(x) :
                       /\ <<y[i]>> = Apply(k, <<x[i]>>)
                       /\ \A j \in Rows(x) \ {i} :
                              \A v \in Replacements(Width(x)) :
                                  Apply(k, [x EXCEPT ![j] = v])[i] = y[i]

C8_Witness ==
    /\ Len(hist) = 2
    /\ Forward(1) /\ Chained(1) /\ Inverse(2)
    /\ Len(hist[1].in) = 2
    /\ hist[1].in[1] = ZeroRGB
    /\ hist[1].in[2] = <<Rat(1, 2), Zero, Zero>>
    /\ hist[2].out = hist[1].in

(***************************************************************************)
(* C9.  No input mutation.                                                 *)
(***************************************************************************)
\* C9: a call of RGB_to_Prismatic or Prismatic_to_RGB leaves every component
\* of its argument as it was, also when the zero guard fires; the array it
\* returns is a new object, so the caller's in-place change of the result of
\* RGB_to_Prismatic does not reach the RGB argument.
C9_NoInputMutation ==
    \A k \in Steps :
        IsCall(k) =>
            /\ Read(heap, hist[k].arg) = hist[k].in
            /\ hist[k].err = "none" => hist[k].fresh

C9_Witness ==
    /\ Len(hist) = 2
    /\ Forward(1) /\ hist[1].in = <<ZeroRGB>>
    /\ hist[2].op = "saturate"
    /\ hist[2].out # hist[2].in
    /\ Read(heap, hist[1].arg) = <<ZeroRGB>>

(***************************************************************************)
(* C10.  Reverse round trip.                                               *)
(***************************************************************************)
ReverseCase(p) ==
    /\ Len(p) = 4
    /\ Positive(p[1])
    /\ \A j \in 2..4 : NonNegative(p[j])
    /\ Sum3(p[2], p[3], p[4]) = One

\* C10: for every Prismatic vector p = (L, rho, gamma, beta) with L > 0,
\* rho, gamma, beta non-negative and rho + gamma + beta = 1,
\* RGB_to_Prismatic applied to the result of Prismatic_to_RGB on p returns
\* p, component by component.
C10_ReverseRoundTrip ==
    \A k \in Steps :
        Inverse(k) /\ Chained(k) /\ Forward(k + 1) =>
            \A i \in Rows(hist[k].in) :
                ReverseCase(hist[k].in[i]) =>
                    hist[k + 1].out[i] = hist[k].in[i]

C10_Witness ==
    /\ Len(hist) = 2
    /\ Inverse(1) /\ Chained(1) /\ Forward(2)
    /\ hist[1].in = <<<<Rat(3, 4), Rat(1, 6), Rat(1, 3), Rat(1, 2)>>>>
    /\ hist[2].out = hist[1].in

====
